---- MODULE Spec2Model ----
(***************************************************************************)
(* The fallback-merge read protocol of the Backstage Terraform provider:   *)
(* domainDataSource.Read (backstage/data_source_domain.go) and             *)
(* apiDataSource.Read (the API data source, same package).                 *)
(*                                                                         *)
(* Encoding of Go / framework values:                                      *)
(*   types.String      Null, or the string it holds                        *)
(*   pointer, slice,   None (nil) or Some(v); a slice that is non-nil and  *)
(*   map                empty is Some(<<>>), a map is a set of <<k, v>>    *)
(*                      pairs with distinct keys                           *)
(***************************************************************************)
EXTENDS Naturals, Sequences, FiniteSets

VARIABLES
    kind,       \* which data source this is: domainDataSource or apiDataSource
    client,     \* d.client
    pc,         \* "idle": no Read in progress; "done": a Read has ended
    config,     \* req.Config of the Read that ended
    result,     \* what d.client.Catalog.<Kind>.Get returned to it
    calls,      \* the Get calls it issued, in order
    diags,      \* resp.Diagnostics
    respState,  \* resp.State: None until State.Set writes it
    outcome,    \* how it ended: "returned", "panic" (nil dereference), or
                \* "rejected" (the configuration failed validation)
    history,    \* the reads that ended before, oldest first
    inflight,   \* the reads that run concurrently, one per goroutine
    memory      \* the model (var state) of each of these reads

vars == <<kind, client, pc, config, result, calls, diags, respState, outcome,
          history, inflight, memory>>

----------------------------------------------------------------------------
(* Values *)

Null == "<null>"
None == <<>>
Some(x) == <<x>>
IsNone(o) == o = <<>>
Val(o) == o[1]

\* types.String.IsNull and types.String.ValueString
IsNull(s) == s = Null
ValueString(s) == IF s = Null THEN "" ELSE s

\* len() / range over a slice: a nil slice has no elements
Elems(sl) == IF IsNone(sl) THEN <<>> ELSE Val(sl)

\* append(sl, x): appending to a nil slice allocates
AppendSlice(sl, x) == Some(Append(Elems(sl), x))

\* m[k] = v on a map held as a set of pairs
MapPut(m, k, v) == {p \in m : p[1] # k} \cup {<<k, v>>}

SeqsUpTo(S, n) == UNION {[1..m -> S] : m \in 0..n}

Kinds == {"Domain", "API"}

\* backstage.KindDomain / backstage.KindAPI
KindLiteral(k) == k

DefaultNamespaceName == "default"
DefaultFallbackID == "123456789"
DefaultFallbackApiVersion == "backstage.io/v1alpha1"
StatusOK == 200

----------------------------------------------------------------------------
(* Bounds of the model *)

\* reads in a row on one data source
MaxReads == 3

\* reads that run at the same time on one data source
MaxReaders == 2

\* the relations, tags, links, labels and annotations of a fetched entity hold
\* at most MaxItems elements altogether
MaxItems == 2

----------------------------------------------------------------------------
(* What the catalog client can return: entities, HTTP responses, errors *)

RelationValues ==
    { [type |-> "ownedBy", targetRef |-> "group:default/team-a",
       target |-> [kind |-> "group", name |-> "team-a", namespace |-> "default"]],
      [type |-> "hasPart", targetRef |-> "system:default/billing",
       target |-> [kind |-> "system", name |-> "billing", namespace |-> "default"]] }

TagValues == {"java", "data"}

LinkValues ==
    { [url |-> "https://example.com", title |-> "Docs", icon |-> "doc", type |-> "docs"],
      [url |-> "https://example.org", title |-> "Board", icon |-> "dashboard",
       type |-> "admin"] }

\* a Go map[string]string of the entity: nil, empty, or holding pairs
MapValues == {None, Some({}), Some({<<"k1", "v1">>})}

\* A Go slice of the entity is the sequence of its elements: len and range do
\* not tell a nil slice from an empty one, and Read uses nothing else.

EntitySpec(k) ==
    IF k = "Domain"
    THEN [owner |-> "team-a"]
    ELSE [type |-> "openapi", lifecycle |-> "production", owner |-> "team-a",
          definition |-> "openapi: 3.0.0", system |-> "billing"]

EntityMetadatas ==
    [uid : {"uid-1"}, etag : {"etag-1"}, name : {"a"}, namespace : {"default"},
     title : {"Title"}, description : {"Description"},
     labels : MapValues, annotations : MapValues,
     tags : SeqsUpTo(TagValues, MaxItems),
     links : SeqsUpTo(LinkValues, MaxItems)]

MapSize(m) == IF IsNone(m) THEN 0 ELSE Cardinality(Val(m))

EntitySize(e) ==
    Len(e.relations) + Len(e.metadata.tags) + Len(e.metadata.links)
    + MapSize(e.metadata.labels) + MapSize(e.metadata.annotations)

Entities(k) ==
    { e \in [apiVersion : {"backstage.io/v1beta1"}, kind : {KindLiteral(k)},
             metadata : EntityMetadatas,
             relations : SeqsUpTo(RelationValues, MaxItems),
             spec : {EntitySpec(k)}] :
        EntitySize(e) <= MaxItems }

SampleEntity(k) ==
    [apiVersion |-> "backstage.io/v1beta1", kind |-> KindLiteral(k),
     metadata |-> [uid |-> "uid-1", etag |-> "etag-1", name |-> "a",
                   namespace |-> "default", title |-> "Title",
                   description |-> "Description",
                   labels |-> Some({<<"k1", "v1">>}), annotations |-> None,
                   tags |-> <<"java">>, links |-> <<>>],
     relations |-> <<CHOOSE r \in RelationValues : r.type = "ownedBy">>,
     spec |-> EntitySpec(k)]

HttpResponse(code) ==
    [StatusCode |-> code,
     Status |-> IF code = 200 THEN "200 OK"
                ELSE IF code = 404 THEN "404 Not Found"
                ELSE "503 Service Unavailable"]

\* (entity, response, err) triples of Catalog.<Kind>.Get:
\*   a decoded entity with a 200 response and no error;
\*   a non-200 response, with or without an error;
\*   an error with a 200 response (the edge case of the read protocol);
\*   an error with no response at all (the request never completed).
\* A failed call may or may not carry an entity.
SuccessResults(k) ==
    { [entity |-> Some(e), response |-> Some(HttpResponse(200)), err |-> None] :
        e \in Entities(k) }

FailureResults(k) ==
    { t \in [entity : {None, Some(SampleEntity(k))},
             response : {None, Some(HttpResponse(200)), Some(HttpResponse(404)),
                         Some(HttpResponse(503))},
             err : {None, Some("connection refused")}] :
        \/ ~IsNone(t.err)
        \/ ~IsNone(t.response) /\ Val(t.response).StatusCode # StatusOK }

ClientResults(k) == SuccessResults(k) \cup FailureResults(k)

----------------------------------------------------------------------------
(* What the configuration of a data block can hold (Schema) *)

RequestNames == {"a"}
RequestNamespaces == {Null, "team-ns"}

FallbackMetadatas ==
    { None,
      Some([uid |-> "fb-uid", etag |-> Null, name |-> "fb-name", namespace |-> Null,
            title |-> "Fallback", description |-> Null,
            labels |-> Some({<<"k1", "fb">>}), annotations |-> None,
            tags |-> Some(<<"fb-tag">>), links |-> None]) }

FallbackRelations ==
    { None,
      Some(<<[type |-> "fb-rel", targetRef |-> "group:default/fb",
              target |-> Some([kind |-> "group", name |-> "fb",
                               namespace |-> "default"])]>>) }

FallbackSpecs(k) ==
    { None,
      Some(IF k = "Domain"
           THEN [owner |-> "fb-owner"]
           ELSE [type |-> "fb-type", lifecycle |-> Null, owner |-> "fb-owner",
                 definition |-> Null, system |-> Null]) }

\* fallback.name is Required for a Domain and Optional for an API
FallbackNames(k) == IF k = "Domain" THEN {"fb-name"} ELSE {"fb-name", Null}

Fallbacks(k) ==
    [id : {Null, "fb-id"}, name : FallbackNames(k), namespace : {Null, "fb-ns"},
     api_version : {Null, "fb/v1"}, kind : {Null, "FbKind"},
     metadata : FallbackMetadatas, relations : FallbackRelations,
     spec : FallbackSpecs(k)]

\* The model req.Config.Get fills: the Computed attributes are null in a
\* configuration, name is Required, namespace and fallback are Optional.
Configs(k) ==
    [id : {Null}, name : RequestNames, namespace : RequestNamespaces,
     api_version : {Null}, kind : {Null}, metadata : {None}, relations : {None},
     spec : {None},
     fallback : {None} \cup {Some(f) : f \in Fallbacks(k)}]

\* stringvalidator.LengthBetween(1, 63)
MinNameLength == 1
MaxNameLength == 63

\* The characters of the strings a configuration is tried with, and the strings
\* themselves: the empty string, a name of one character, one of
\* MaxNameLength + 1 characters, one with a space.
Spellings ==
    { <<>>,
      <<"a">>,
      [i \in 1..(MaxNameLength + 1) |-> "a"],
      <<"b", "a", "d", " ", "n", "a", "m", "e">>,
      <<"t", "e", "a", "m", "-", "n", "s">>,
      <<"f", "b", "-", "n", "a", "m", "e">>,
      <<"f", "b", "-", "n", "s">> }

RECURSIVE Join(_)
Join(chars) == IF chars = <<>> THEN "" ELSE Head(chars) \o Join(Tail(chars))

Chars(s) == CHOOSE chars \in Spellings : Join(chars) = s

\* names that the validators of the schema do not accept
InvalidNames ==
    { Join(<<>>), Join([i \in 1..(MaxNameLength + 1) |-> "a"]),
      Join(<<"b", "a", "d", " ", "n", "a", "m", "e">>) }

\* The fallbacks Terraform can submit for the data block: those above, and
\* fallbacks of every name and namespace, valid or not, that set nothing else.
SubmittedFallbacks(k) ==
    Fallbacks(k)
    \cup [id : {Null}, name : FallbackNames(k) \cup InvalidNames,
          namespace : {Null, "fb-ns"} \cup InvalidNames,
          api_version : {Null}, kind : {Null},
          metadata : {None}, relations : {None}, spec : {None}]

\* every configuration Terraform can submit for the data block
SubmittedConfigs(k) ==
    [id : {Null}, name : RequestNames \cup InvalidNames,
     namespace : RequestNamespaces \cup InvalidNames,
     api_version : {Null}, kind : {Null}, metadata : {None}, relations : {None},
     spec : {None},
     fallback : {None} \cup {Some(f) : f \in SubmittedFallbacks(k)}]

----------------------------------------------------------------------------
(* The validators of name and namespace *)

Diag(severity, detail) == [severity |-> severity, detail |-> detail]

\* patternEntityName: letters, digits, "-", "_" and "."
EntityNameChars ==
    { "a", "b", "c", "d", "e", "f", "g", "h", "i", "j", "k", "l", "m", "n", "o",
      "p", "q", "r", "s", "t", "u", "v", "w", "x", "y", "z",
      "A", "B", "C", "D", "E", "F", "G", "H", "I", "J", "K", "L", "M", "N", "O",
      "P", "Q", "R", "S", "T", "U", "V", "W", "X", "Y", "Z",
      "0", "1", "2", "3", "4", "5", "6", "7", "8", "9", "-", "_", "." }

\* regexp.MustCompile(patternEntityName) matched against the whole string
MatchesEntityName(chars) == \A i \in 1..Len(chars) : chars[i] \in EntityNameChars

\* mutant: the upper limit is one too high
LengthBetween_OneMore(n, min, max) == n >= min /\ n <= max + 1

\* stringvalidator.LengthBetween(min, max)
LengthBetween(n, min, max) == n >= min /\ n <= max

\* the two validators of one attribute; a null value is not validated
ValidateName(s) ==
    IF IsNull(s) THEN <<>>
    ELSE (IF LengthBetween(Len(Chars(s)), MinNameLength, MaxNameLength) THEN <<>>
          ELSE <<Diag("error", "Invalid Attribute Value Length")>>)
         \o (IF MatchesEntityName(Chars(s)) THEN <<>>
             ELSE <<Diag("error", "Invalid Attribute Value Match")>>)

\* the validators of name, namespace, fallback.name and fallback.namespace
ValidationDiags(cfg) ==
    ValidateName(cfg.name) \o ValidateName(cfg.namespace)
    \o (IF IsNone(cfg.fallback) THEN <<>>
        ELSE ValidateName(Val(cfg.fallback).name)
             \o ValidateName(Val(cfg.fallback).namespace))

----------------------------------------------------------------------------
(* Read, statement by statement *)

\* the zero value of domainDataSourceModel / apiDataSourceModel
ZeroModel ==
    [id |-> Null, name |-> Null, namespace |-> Null, api_version |-> Null,
     kind |-> Null, metadata |-> None, relations |-> None, spec |-> None,
     fallback |-> None]

\* mutant: the relations of the model the previous Read ended with are kept
LoadConfig_KeepsRelations(previous, cfg) ==
    [cfg EXCEPT !.relations = previous.relations]

\* var state domainDataSourceModel; req.Config.Get(ctx, &state): a model of its
\* own for every Read, filled from the configuration, whatever model the
\* previous Read ended with
LoadConfig(previous, cfg) == cfg

\* mutant: the model is kept in the data source, one for all reads
StateSlot_InDataSource(r) == 1

\* where the model of the read in goroutine r lives: a local variable of Read
StateSlot(r) == r

HasError(ds) == \E i \in 1..Len(ds) : ds[i].severity = "error"

\* mutant: a null namespace is left as it is
DefaultNamespace_Skipped(state) == state

\* if state.Namespace.IsNull() { state.Namespace = DefaultNamespaceName }
DefaultNamespace(state) ==
    IF IsNull(state.namespace)
    THEN [state EXCEPT !.namespace = DefaultNamespaceName]
    ELSE state

\* the arguments of Catalog.<Kind>.Get
GetCall(state) ==
    [name |-> ValueString(state.name), namespace |-> ValueString(state.namespace)]

\* mutant: a failed Get is issued a second time
IssuedCalls_RetryOnFailure(state, res) ==
    IF IsNone(res.err) /\ ~IsNone(res.response)
       /\ Val(res.response).StatusCode = StatusOK
    THEN <<GetCall(state)>>
    ELSE <<GetCall(state), GetCall(state)>>

\* Read calls Get in one place, outside any loop: one call, whatever it returns
IssuedCalls(state, res) == <<GetCall(state)>>

\* mutant: a failed check never ends the read
FailureDiag_AlwaysWarning(state, detail) == Diag("warning", detail)

\* mutant: the test of state.Fallback is negated
FailureDiag_Negated(state, detail) ==
    IF IsNone(state.fallback)
    THEN Diag("warning", detail)
    ELSE Diag("error", detail)

\* a failed check (err != nil, or response.StatusCode != 200): an error and a
\* return without a fallback, a warning with one
FailureDiag(state, detail) ==
    IF IsNone(state.fallback)
    THEN Diag("error", detail)
    ELSE Diag("warning", detail)

\* mutant: the fallback is copied whenever one is configured
UsesFallback_WheneverConfigured(state, res) == ~IsNone(state.fallback)

\* mutant: only the status decides that the fallback is used
UsesFallback_StatusOnly(state, res) ==
    /\ Val(res.response).StatusCode # StatusOK
    /\ ~IsNone(state.fallback)

\* (err != nil || response.StatusCode != http.StatusOK) && state.Fallback != nil
UsesFallback(state, res) ==
    /\ ~IsNone(res.err) \/ Val(res.response).StatusCode # StatusOK
    /\ ~IsNone(state.fallback)

\* err == nil && response.StatusCode == http.StatusOK
FetchOK(res) ==
    IsNone(res.err) /\ Val(res.response).StatusCode = StatusOK

\* mutant: the defaults replace what the fallback sets
BackfillFallback_Overwrites(k, f) ==
    [f EXCEPT !.id = DefaultFallbackID, !.api_version = DefaultFallbackApiVersion,
              !.kind = KindLiteral(k)]

\* the defaults written into state.Fallback when its id, api_version or kind is null
BackfillFallback(k, f) ==
    LET f1 == IF IsNull(f.id) THEN [f EXCEPT !.id = DefaultFallbackID] ELSE f
        f2 == IF IsNull(f1.api_version)
              THEN [f1 EXCEPT !.api_version = DefaultFallbackApiVersion] ELSE f1
    IN  IF IsNull(f2.kind) THEN [f2 EXCEPT !.kind = KindLiteral(k)] ELSE f2

\* mutant: name and namespace of the request are kept
CopyFallback_KeepsRequestKey(state, f) ==
    [state EXCEPT !.fallback = Some(f),
                  !.id = f.id, !.api_version = f.api_version, !.kind = f.kind,
                  !.metadata = f.metadata, !.relations = f.relations,
                  !.spec = f.spec]

\* state.ID = state.Fallback.ID ... state.Spec = state.Fallback.Spec
CopyFallback(state, f) ==
    [state EXCEPT !.fallback = Some(f),
                  !.id = f.id, !.name = f.name, !.namespace = f.namespace,
                  !.api_version = f.api_version, !.kind = f.kind,
                  !.metadata = f.metadata, !.relations = f.relations,
                  !.spec = f.spec]

\* mutant: the defaults are written into the fallback before the branch
ApplyFallback_BackfillsFirst(k, state, res) ==
    IF UsesFallback(state, res)
    THEN CopyFallback(state, BackfillFallback(k, Val(state.fallback)))
    ELSE IF IsNone(state.fallback) THEN state
    ELSE [state EXCEPT !.fallback = Some(BackfillFallback(k, Val(state.fallback)))]

ApplyFallback(k, state, res) ==
    IF UsesFallback(state, res)
    THEN CopyFallback(state, BackfillFallback(k, Val(state.fallback)))
    ELSE state

\* entityRelationModel{...} of one relation of the entity
RelationModel(i) ==
    [type |-> i.type, targetRef |-> i.targetRef,
     target |-> Some([kind |-> i.target.kind, name |-> i.target.name,
                      namespace |-> i.target.namespace])]

\* for _, i := range entity.Relations { state.Relations = append(state.Relations, ...) }
RECURSIVE AppendRelations(_, _)
AppendRelations(relations, rest) ==
    IF rest = <<>> THEN relations
    ELSE AppendRelations(AppendSlice(relations, RelationModel(Head(rest))), Tail(rest))

\* mutant: a relation already in the list is not appended again
RECURSIVE AppendRelationsOnce(_, _)
AppendRelationsOnce(relations, rest) ==
    IF rest = <<>> THEN relations
    ELSE LET m == RelationModel(Head(rest))
             have == \E i \in 1..Len(Elems(relations)) : Elems(relations)[i] = m
         IN  AppendRelationsOnce(IF have THEN relations ELSE AppendSlice(relations, m),
                                 Tail(rest))

ProjectRelations_Dedup(relations, entity) ==
    AppendRelationsOnce(relations, entity.relations)

ProjectRelations(relations, entity) == AppendRelations(relations, entity.relations)

\* &domainSpecModel{...} / &apiSpecModel{...}
ProjectSpec(k, entity) ==
    IF k = "Domain"
    THEN Some([owner |-> entity.spec.owner])
    ELSE Some([type |-> entity.spec.type, lifecycle |-> entity.spec.lifecycle,
               owner |-> entity.spec.owner, definition |-> entity.spec.definition,
               system |-> entity.spec.system])

\* for k, v := range src { dst[k] = v }; a nil src has no pairs
RECURSIVE CopyMapInto(_, _)
CopyMapInto(dst, pairs) ==
    IF pairs = {} THEN dst
    ELSE LET p == CHOOSE q \in pairs : TRUE
         IN  CopyMapInto(MapPut(dst, p[1], p[2]), pairs \ {p})

\* mutant: the entity's map is assigned as it is, nil included
ProjectMap_Alias(src) == src

\* Labels: map[string]string{} followed by the copy loop
ProjectMap(src) == Some(CopyMapInto({}, IF IsNone(src) THEN {} ELSE Val(src)))

\* for _, v := range entity.Metadata.Tags { Tags = append(Tags, StringValue(v)) }
RECURSIVE AppendTags(_, _)
AppendTags(tags, rest) ==
    IF rest = <<>> THEN tags
    ELSE AppendTags(AppendSlice(tags, Head(rest)), Tail(rest))

\* mutant: Tags starts as an empty, non-nil slice
ProjectTags_Allocated(src) == AppendTags(Some(<<>>), src)

ProjectTags(src) == AppendTags(None, src)

LinkModel(v) == [url |-> v.url, title |-> v.title, icon |-> v.icon, type |-> v.type]

\* for _, v := range entity.Metadata.Links { Links = append(Links, entityLinkModel{...}) }
RECURSIVE AppendLinks(_, _)
AppendLinks(links, rest) ==
    IF rest = <<>> THEN links
    ELSE AppendLinks(AppendSlice(links, LinkModel(Head(rest))), Tail(rest))

ProjectLinks(src) == AppendLinks(None, src)

\* &entityMetadataModel{...} and the four loops that fill it
ProjectMetadata(entity) ==
    Some([uid |-> entity.metadata.uid, etag |-> entity.metadata.etag,
          name |-> entity.metadata.name, namespace |-> entity.metadata.namespace,
          title |-> entity.metadata.title,
          description |-> entity.metadata.description,
          labels |-> ProjectMap(entity.metadata.labels),
          annotations |-> ProjectMap(entity.metadata.annotations),
          tags |-> ProjectTags(entity.metadata.tags),
          links |-> ProjectLinks(entity.metadata.links)])

\* mutant: id is taken from metadata.name
ProjectEntity_IdFromName(k, state, entity) ==
    [state EXCEPT !.id = entity.metadata.name,
                  !.api_version = entity.apiVersion,
                  !.kind = entity.kind,
                  !.relations = ProjectRelations(state.relations, entity),
                  !.spec = ProjectSpec(k, entity),
                  !.metadata = ProjectMetadata(entity)]

\* the body of if err == nil && response.StatusCode == http.StatusOK
ProjectEntity(k, state, entity) ==
    [state EXCEPT !.id = entity.metadata.uid,
                  !.api_version = entity.apiVersion,
                  !.kind = entity.kind,
                  !.relations = ProjectRelations(state.relations, entity),
                  !.spec = ProjectSpec(k, entity),
                  !.metadata = ProjectMetadata(entity)]

ApplyEntity(k, state, res) ==
    IF FetchOK(res) THEN ProjectEntity(k, state, Val(res.entity)) ELSE state

\* Read from the return of Get on, as a function of the model and of what Get
\* returns: the diagnostics, the state written (None when State.Set is not
\* reached) and how Read ended. ReadResult is the whole of Read.
ReadAfterGet(k, state, res) ==
    LET errDiags == IF IsNone(res.err) THEN <<>>
                    ELSE <<FailureDiag(state, Val(res.err))>>
    IN  IF HasError(errDiags)
        THEN [diags |-> errDiags, state |-> None, outcome |-> "returned"]
        ELSE IF IsNone(res.response)
        \* response.StatusCode on a nil *http.Response
        THEN [diags |-> errDiags, state |-> None, outcome |-> "panic"]
        ELSE LET statusDiags ==
                     IF Val(res.response).StatusCode # StatusOK
                     THEN Append(errDiags, FailureDiag(state, Val(res.response).Status))
                     ELSE errDiags
             IN  IF HasError(statusDiags)
                 THEN [diags |-> statusDiags, state |-> None, outcome |-> "returned"]
                 ELSE [diags |-> statusDiags,
                       state |-> Some(ApplyEntity(k, ApplyFallback(k, state, res), res)),
                       outcome |-> "returned"]

ReadResult(k, cfg, res) == ReadAfterGet(k, DefaultNamespace(cfg), res)

----------------------------------------------------------------------------
(* The state machine *)

Readers == 1..MaxReaders

IdleReader ==
    [pc |-> "idle", config |-> None, result |-> None, calls |-> <<>>,
     diags |-> <<>>, state |-> None, outcome |-> "none"]

Init ==
    /\ kind \in Kinds
    /\ client = None
    /\ pc = "idle"
    /\ config = None
    /\ result = None
    /\ calls = <<>>
    /\ diags = <<>>
    /\ respState = None
    /\ outcome = "none"
    /\ history = <<>>
    /\ inflight = [r \in Readers |-> IdleReader]
    /\ memory = [r \in Readers |-> ZeroModel]

\* Configure: keeps the client when ProviderData is nil, else stores it
Configure ==
    /\ pc = "idle"
    /\ \E providerData \in {None, Some("client")} :
          client' = IF IsNone(providerData) THEN client ELSE providerData
    /\ UNCHANGED <<kind, pc, config, result, calls, diags, respState, outcome,
                   history, inflight, memory>>

\* The framework runs the validators of the schema on the configuration before
\* it calls Read; when one of them reports an error, Read is not called.
RejectConfig(k) ==
    /\ kind = k
    /\ pc = "idle"
    /\ \E cfg \in SubmittedConfigs(k) :
          /\ ValidationDiags(cfg) # <<>>
          /\ config' = Some(cfg)
          /\ diags' = ValidationDiags(cfg)
    /\ pc' = "done"
    /\ result' = None
    /\ calls' = <<>>
    /\ respState' = None
    /\ outcome' = "rejected"
    /\ UNCHANGED <<kind, client, history, inflight, memory>>

DomainRejectConfig == RejectConfig("Domain")

ApiRejectConfig == RejectConfig("API")

\* the model the previous Read ended with, the zero model before the first
Previous == IF history = <<>> THEN ZeroModel ELSE history[Len(history)].model

\* one Read, with its configuration among configs and Get's return among results
ReadFrom(k, configs, results) ==
    /\ kind = k
    /\ pc = "idle"
    /\ ~IsNone(client)
    /\ \E cfg \in configs :
       /\ ValidationDiags(cfg) = <<>>
       /\ \E res \in results :
          LET state == LoadConfig(Previous, cfg)
              r == ReadResult(k, state, res)
          IN  /\ config' = Some(cfg)
              /\ result' = Some(res)
              /\ calls' = IssuedCalls(DefaultNamespace(state), res)
              /\ diags' = r.diags
              /\ respState' = r.state
              /\ outcome' = r.outcome
    /\ pc' = "done"
    /\ UNCHANGED <<kind, client, history, inflight, memory>>

Read(k) == ReadFrom(k, SubmittedConfigs(k), ClientResults(k))

DomainRead == Read("Domain")

ApiRead == Read("API")

\* the framework hands every Read a fresh request and response
NextRequest ==
    /\ pc = "done"
    /\ pc' = "idle"
    /\ config' = None
    /\ result' = None
    /\ calls' = <<>>
    /\ diags' = <<>>
    /\ respState' = None
    /\ outcome' = "none"
    /\ UNCHANGED <<kind, client, history, inflight, memory>>

Next ==
    \/ Configure
    \/ DomainRejectConfig
    \/ ApiRejectConfig
    \/ DomainRead
    \/ ApiRead
    \/ NextRequest

Spec == Init /\ [][Next]_vars

----------------------------------------------------------------------------
(* Reads in a row, and reads at the same time, on a few configurations and  *)
(* results                                                                  *)

FullFallback(k) ==
    CHOOSE f \in Fallbacks(k) :
        /\ f.id = "fb-id" /\ f.name = "fb-name" /\ f.namespace = "fb-ns"
        /\ f.api_version = "fb/v1" /\ f.kind = "FbKind"
        /\ ~IsNone(f.metadata) /\ ~IsNone(f.relations) /\ ~IsNone(f.spec)

\* with and without a namespace, with and without a fallback
SampleConfigs(k) ==
    { c \in Configs(k) : IsNone(c.fallback) \/ c.fallback = Some(FullFallback(k)) }

\* a fetched entity, a 503 without an error, an error without a response
SampleResults(k) ==
    { [entity |-> Some(SampleEntity(k)), response |-> Some(HttpResponse(200)),
       err |-> None],
      [entity |-> None, response |-> Some(HttpResponse(503)), err |-> None],
      [entity |-> None, response |-> None, err |-> Some("connection refused")] }

\* the same entity asked for with and without a fallback
RepeatConfigs(k) == { c \in SampleConfigs(k) : c.namespace = Null }

RepeatRead(k) ==
    /\ Len(history) < MaxReads
    /\ ReadFrom(k, RepeatConfigs(k), SampleResults(k))

DomainRepeatRead == RepeatRead("Domain")

ApiRepeatRead == RepeatRead("API")

\* The read that ended goes to the history, with the model it ended with, and
\* the framework hands the next Read a fresh request and response.
NextRepeatedRequest ==
    /\ pc = "done"
    /\ Len(history) < MaxReads
    /\ history' = Append(history,
                         [config |-> Val(config), result |-> Val(result),
                          diags |-> diags, state |-> respState,
                          outcome |-> outcome,
                          model |-> IF IsNone(respState)
                                    THEN DefaultNamespace(Val(config))
                                    ELSE Val(respState)])
    /\ pc' = "idle"
    /\ config' = None
    /\ result' = None
    /\ calls' = <<>>
    /\ diags' = <<>>
    /\ respState' = None
    /\ outcome' = "none"
    /\ UNCHANGED <<kind, client, inflight, memory>>

NextRepeat ==
    \/ Configure
    \/ DomainRepeatRead
    \/ ApiRepeatRead
    \/ NextRepeatedRequest

SpecRepeat == Init /\ [][NextRepeat]_vars

\* Read in goroutine r up to the call of Get: the model is declared and filled
\* from the configuration, the namespace defaulted, Get called
BeginRead(r) ==
    /\ ~IsNone(client)
    /\ inflight[r].pc = "idle"
    /\ \E cfg \in SampleConfigs(kind) :
          LET state == DefaultNamespace(LoadConfig(memory[StateSlot(r)], cfg))
          IN  /\ memory' = [memory EXCEPT ![StateSlot(r)] = state]
              /\ inflight' = [inflight EXCEPT ![r] =
                                [@ EXCEPT !.pc = "calling", !.config = Some(cfg),
                                          !.calls = <<GetCall(state)>>]]
    /\ UNCHANGED <<kind, client, pc, config, result, calls, diags, respState,
                   outcome, history>>

\* Read in goroutine r from the return of Get on
CompleteRead(r) ==
    /\ inflight[r].pc = "calling"
    /\ \E res \in SampleResults(kind) :
          LET out == ReadAfterGet(kind, memory[StateSlot(r)], res)
          IN  /\ inflight' = [inflight EXCEPT ![r] =
                                [@ EXCEPT !.pc = "done", !.result = Some(res),
                                          !.diags = out.diags,
                                          !.state = out.state,
                                          !.outcome = out.outcome]]
              /\ memory' = IF IsNone(out.state) THEN memory
                           ELSE [memory EXCEPT ![StateSlot(r)] = Val(out.state)]
    /\ UNCHANGED <<kind, client, pc, config, result, calls, diags, respState,
                   outcome, history>>

NextConcurrent ==
    \/ Configure
    \/ \E r \in Readers : BeginRead(r)
    \/ \E r \in Readers : CompleteRead(r)

SpecConcurrent == Init /\ [][NextConcurrent]_vars

----------------------------------------------------------------------------
(* Vocabulary of the properties: the read that ended, seen from outside *)

\* Read was called and has ended
ReadDone == pc = "done" /\ outcome # "rejected"
Cfg == Val(config)
Res == Val(result)
Fb == Val(Cfg.fallback)
Fetched == Val(Res.entity)
Out == Val(respState)

HasFallback == ~IsNone(Cfg.fallback)
Written == ~IsNone(respState)
HasWarning(ds) == \E i \in 1..Len(ds) : ds[i].severity = "warning"

\* the client error is non-nil, or the HTTP status is not 200
FetchFailed ==
    \/ ~IsNone(Res.err)
    \/ ~IsNone(Res.response) /\ Val(Res.response).StatusCode # 200

FetchSucceeded ==
    /\ IsNone(Res.err)
    /\ ~IsNone(Res.response)
    /\ Val(Res.response).StatusCode = 200

OrDefault(s, d) == IF s = Null THEN d ELSE s

PairsOf(m) == IF IsNone(m) THEN {} ELSE Val(m)

\* out is the output list of relations of the entity relations rels
MirrorsRelations(out, rels) ==
    /\ Len(Elems(out)) = Len(rels)
    /\ \A i \in 1..Len(rels) :
          LET o == Elems(out)[i]
          IN  /\ o.type = rels[i].type
              /\ o.targetRef = rels[i].targetRef
              /\ o.target = Some(rels[i].target)

\* m is the output metadata of the entity metadata em
MirrorsMetadata(m, em) ==
    /\ ~IsNone(m)
    /\ Val(m).uid = em.uid /\ Val(m).etag = em.etag
    /\ Val(m).name = em.name /\ Val(m).namespace = em.namespace
    /\ Val(m).title = em.title /\ Val(m).description = em.description
    /\ PairsOf(Val(m).labels) = PairsOf(em.labels)
    /\ PairsOf(Val(m).annotations) = PairsOf(em.annotations)
    /\ Elems(Val(m).tags) = em.tags
    /\ Elems(Val(m).links) = em.links

\* every field of st that a source decides comes from the fetched entity e
FromEntity(st, e) ==
    /\ st.id = e.metadata.uid
    /\ st.api_version = e.apiVersion
    /\ st.kind = e.kind
    /\ MirrorsMetadata(st.metadata, e.metadata)
    /\ MirrorsRelations(st.relations, e.relations)
    /\ st.spec = Some(e.spec)

\* every field of st that a source decides comes from the fallback f
FromFallback(st, f) ==
    /\ st.id = OrDefault(f.id, "123456789")
    /\ st.api_version = OrDefault(f.api_version, "backstage.io/v1alpha1")
    /\ st.kind = OrDefault(f.kind, kind)
    /\ st.metadata = f.metadata
    /\ st.relations = f.relations
    /\ st.spec = f.spec

----------------------------------------------------------------------------
(* Properties *)

\* C1: a read whose fetch fails (error non-nil or status not 200) with no
\* fallback configured reports an error diagnostic and returns without
\* writing a state.
C1_FatalWithoutFallback ==
    (ReadDone /\ FetchFailed /\ ~HasFallback)
        => (HasError(diags) /\ ~Written /\ outcome = "returned")

\* C1 witness: a 503 without a client error and without a fallback was fatal.
C1_Witness ==
    /\ ReadDone /\ ~HasFallback
    /\ IsNone(Res.err) /\ Val(Res.response).StatusCode = 503
    /\ HasError(diags) /\ ~Written

\* C2: a read whose fetch fails with a fallback configured reports a warning
\* and no error, does not abort, and writes a state.
C2_WarningAndStateWithFallback ==
    (ReadDone /\ FetchFailed /\ HasFallback)
        => (HasWarning(diags) /\ ~HasError(diags) /\ outcome = "returned" /\ Written)

\* C3: when the fetch fails and a fallback is configured, the id, api_version
\* and kind of the state written are the fallback's where it sets them, and
\* "123456789", "backstage.io/v1alpha1" and the kind's literal where it does not.
C3_FallbackIdentityDefaults ==
    (ReadDone /\ FetchFailed /\ HasFallback /\ Written)
        => /\ Out.id = OrDefault(Fb.id, "123456789")
           /\ Out.api_version = OrDefault(Fb.api_version, "backstage.io/v1alpha1")
           /\ Out.kind = OrDefault(Fb.kind, kind)

\* C3 witness: a fallback that sets id but neither api_version nor kind was used.
C3_Witness ==
    /\ ReadDone /\ FetchFailed /\ HasFallback /\ Written
    /\ Fb.id = "fb-id" /\ Fb.api_version = Null /\ Fb.kind = Null
    /\ Out.id = "fb-id" /\ Out.api_version = "backstage.io/v1alpha1"
    /\ Out.kind = kind

\* C4: after a successful fetch the id of the state written is the fetched
\* entity's metadata.uid, with or without a fallback, whatever the fallback's id.
C4_SuccessIdIsUid ==
    (ReadDone /\ FetchSucceeded)
        => (Written /\ Out.id = Fetched.metadata.uid)

\* C4 witness: a successful fetch with a fallback that carries its own id.
C4_Witness ==
    /\ ReadDone /\ FetchSucceeded /\ HasFallback /\ Written
    /\ Fb.id = "fb-id" /\ Out.id = "uid-1"

\* C5: in every state written, id, api_version, kind, metadata, relations and
\* spec come all from the fetched entity or all from the fallback, never from both.
C5_OneEffectiveSource ==
    (ReadDone /\ Written)
        => LET fromEntity == FetchSucceeded /\ FromEntity(Out, Fetched)
               fromFallback == FetchFailed /\ HasFallback /\ FromFallback(Out, Fb)
           IN  (fromEntity \/ fromFallback) /\ ~(fromEntity /\ fromFallback)

\* C5 witness: a successful fetch of an entity with a relation, with a fallback
\* configured that has relations, metadata and spec of its own.
C5_Witness ==
    /\ ReadDone /\ Written /\ FetchSucceeded /\ HasFallback
    /\ ~IsNone(Fb.relations) /\ ~IsNone(Fb.metadata) /\ ~IsNone(Fb.spec)
    /\ Len(Fetched.relations) = 1
    /\ FromEntity(Out, Fetched)

\* C6: an error returned together with status 200 is a failed fetch: without a
\* fallback the read is fatal and writes nothing; with one it warns and the
\* state written comes from the fallback, nothing from the returned entity.
C6_ErrorBeats200 ==
    (ReadDone /\ ~IsNone(Res.err) /\ ~IsNone(Res.response)
       /\ Val(Res.response).StatusCode = 200)
        => IF HasFallback
           THEN /\ Written /\ ~HasError(diags) /\ HasWarning(diags)
                /\ FromFallback(Out, Fb)
           ELSE HasError(diags) /\ ~Written

\* C6 witness: error and 200 with an entity returned and a fallback configured.
C6_Witness ==
    /\ ReadDone /\ ~IsNone(Res.err) /\ ~IsNone(Res.response)
    /\ Val(Res.response).StatusCode = 200
    /\ ~IsNone(Res.entity) /\ HasFallback /\ Written
    /\ Out.id # Fetched.metadata.uid

\* C7: when the fetch fails and a fallback is configured, name, namespace,
\* metadata, relations and spec of the state written are the fallback's, verbatim.
C7_FallbackFieldsVerbatim ==
    (ReadDone /\ FetchFailed /\ HasFallback /\ Written)
        => /\ Out.name = Fb.name
           /\ Out.namespace = Fb.namespace
           /\ Out.metadata = Fb.metadata
           /\ Out.relations = Fb.relations
           /\ Out.spec = Fb.spec

\* C7 witness: the request's name and namespace were replaced by the fallback's.
C7_Witness ==
    /\ ReadDone /\ FetchFailed /\ HasFallback /\ Written
    /\ Cfg.name = "a" /\ Cfg.namespace = "team-ns"
    /\ Out.name = "fb-name" /\ Out.namespace = "fb-ns"
    /\ ~IsNone(Out.metadata) /\ ~IsNone(Out.relations) /\ ~IsNone(Out.spec)

\* C8: after a successful fetch, metadata.labels and metadata.annotations of the
\* state written are maps that are present (empty when the entity has none or a
\* nil map) and hold exactly the entity's pairs.
C8_LabelsAnnotationsPresent ==
    (ReadDone /\ FetchSucceeded)
        => /\ Written /\ ~IsNone(Out.metadata)
           /\ ~IsNone(Val(Out.metadata).labels)
           /\ ~IsNone(Val(Out.metadata).annotations)
           /\ Val(Val(Out.metadata).labels) = PairsOf(Fetched.metadata.labels)
           /\ Val(Val(Out.metadata).annotations) = PairsOf(Fetched.metadata.annotations)

\* C8 witness: an entity with a nil labels map and one annotation.
C8_Witness ==
    /\ ReadDone /\ FetchSucceeded /\ Written
    /\ IsNone(Fetched.metadata.labels)
    /\ Fetched.metadata.annotations = Some({<<"k1", "v1">>})
    /\ Val(Out.metadata).labels = Some({})
    /\ Val(Out.metadata).annotations = Some({<<"k1", "v1">>})

\* C9: after a successful fetch, metadata.tags (metadata.links) of the state
\* written is absent when the entity has no tags (links), and otherwise is the
\* entity's tags (links) in their order.
C9_TagsLinksAbsentOrMirrored ==
    (ReadDone /\ FetchSucceeded)
        => /\ Written /\ ~IsNone(Out.metadata)
           /\ IF Fetched.metadata.tags = <<>>
              THEN IsNone(Val(Out.metadata).tags)
              ELSE Val(Out.metadata).tags = Some(Fetched.metadata.tags)
           /\ IF Fetched.metadata.links = <<>>
              THEN IsNone(Val(Out.metadata).links)
              ELSE Val(Out.metadata).links = Some(Fetched.metadata.links)

\* C9 witness: an entity with two tags in an order that is not sorted, and no links.
C9_Witness ==
    /\ ReadDone /\ FetchSucceeded /\ Written
    /\ Fetched.metadata.tags = <<"java", "data">>
    /\ Fetched.metadata.links = <<>>
    /\ Val(Out.metadata).tags = Some(<<"java", "data">>)
    /\ IsNone(Val(Out.metadata).links)

\* C10: after a successful fetch, relations of the state written has one entry
\* per relation of the entity, in the entity's order, duplicates included, and
\* no other entry.
C10_RelationsMirrored ==
    (ReadDone /\ FetchSucceeded)
        => (Written /\ MirrorsRelations(Out.relations, Fetched.relations))

\* C10 witness: the same relation twice, with a fallback that has a relation.
C10_Witness ==
    /\ ReadDone /\ FetchSucceeded /\ Written
    /\ HasFallback /\ ~IsNone(Fb.relations)
    /\ Len(Fetched.relations) = 2
    /\ Fetched.relations[1] = Fetched.relations[2]
    /\ Len(Elems(Out.relations)) = 2

C13_ExactlyOneGet == ReadDone => Len(calls) = 1

\* C13 witness: a fetch that failed with a fallback configured was not retried.
C13_Witness ==
    /\ ReadDone /\ FetchFailed /\ HasFallback /\ Written /\ Len(calls) = 1

\* C16: Read does not fault on any result of the client; with an error, no
\* HTTP response and a fallback configured, it writes a state.
C16_NoFaultOnNilResponse ==
    ReadDone
        => /\ outcome # "panic"
           /\ (~IsNone(Res.err) /\ IsNone(Res.response) /\ HasFallback) => Written

\* C17: every state written has a non-null namespace, "default" when none
\* was supplied, also when it comes from a fallback without a namespace.
C17_NamespaceAlwaysSet ==
    (ReadDone /\ Written)
        => /\ Out.namespace # Null
           /\ (FetchSucceeded /\ Cfg.namespace = Null) => Out.namespace = "default"
           /\ (FetchFailed /\ Fb.namespace = Null) => Out.namespace = "default"

\* C18 as claimed: the fallback of every state written equals the fallback of
\* the configuration, field for field.
C18_FallbackUnchanged ==
    (ReadDone /\ Written) => Out.fallback = Cfg.fallback

\* C18 amended: after a successful fetch the fallback of the state written
\* equals the configuration's; after a failed fetch it equals the
\* configuration's except that an unset id, api_version or kind holds its default.
C18_FallbackUnchangedButDefaults ==
    (ReadDone /\ Written)
        => IF FetchSucceeded
           THEN Out.fallback = Cfg.fallback
           ELSE Out.fallback =
                    Some([Fb EXCEPT
                            !.id = OrDefault(Fb.id, "123456789"),
                            !.api_version = OrDefault(Fb.api_version,
                                                      "backstage.io/v1alpha1"),
                            !.kind = OrDefault(Fb.kind, kind)])

\* C18 witness: a fallback without id was used, and is echoed with the default id.
C18_Witness ==
    /\ ReadDone /\ Written /\ FetchFailed
    /\ Fb.id = Null /\ Fb.kind = "FbKind"
    /\ Val(Out.fallback).id = "123456789"
    /\ Val(Out.fallback).kind = "FbKind"
    /\ Val(Out.fallback).name = Fb.name

\* C19: every state written has a non-null name, for a Domain and for an API.
C19_NameAlwaysSet ==
    (ReadDone /\ Written) => Out.name # Null

WarningCount(ds) == Cardinality({i \in 1..Len(ds) : ds[i].severity = "warning"})

\* C20: a failed fetch with a fallback configured adds exactly one warning,
\* whether the error, the status or both are the cause.
C20_ExactlyOneWarning ==
    (ReadDone /\ FetchFailed /\ HasFallback) => WarningCount(diags) = 1

NameOutsideFormat(s) ==
    s \in { "", "bad name",
            "aaaaaaaaaaaaaaaaaaaaaaaaaaaaaaaaaaaaaaaaaaaaaaaaaaaaaaaaaaaaaaaa" }

NamesOf(cfg) ==
    {cfg.name, cfg.namespace}
    \cup (IF IsNone(cfg.fallback) THEN {}
          ELSE {Val(cfg.fallback).name, Val(cfg.fallback).namespace})

\* C14: a request with a name or namespace, its own or its fallback's, that is
\* empty, longer than 63 characters or holds a disallowed character ends with
\* an error and no warning, no Get call and no state; every other request,
\* such as one named "a", is accepted.
C14_InvalidNamesRejected ==
    pc = "done"
        => IF \E s \in NamesOf(Cfg) : NameOutsideFormat(s)
           THEN /\ HasError(diags) /\ ~HasWarning(diags)
                /\ calls = <<>> /\ ~Written
           ELSE outcome # "rejected" /\ Len(calls) = 1

\* C14 witness: a name of 64 characters was rejected.
C14_Witness ==
    /\ pc = "done" /\ outcome = "rejected"
    /\ Cfg.name = "aaaaaaaaaaaaaaaaaaaaaaaaaaaaaaaaaaaaaaaaaaaaaaaaaaaaaaaaaaaaaaaa"
    /\ Cfg.namespace = Null /\ IsNone(Cfg.fallback)
    /\ diags = <<[severity |-> "error", detail |-> "Invalid Attribute Value Length"]>>
    /\ calls = <<>> /\ ~Written

\* C11: reads of the same request with the same result of Get end alike (the
\* same diagnostics, the same state written, the same outcome), whatever reads
\* came before or between them.
C11_RepeatedReadsAgree ==
    \A i, j \in 1..Len(history) :
        (history[i].config = history[j].config /\ history[i].result = history[j].result)
            => /\ history[i].diags = history[j].diags
               /\ history[i].state = history[j].state
               /\ history[i].outcome = history[j].outcome

\* C11 witness: the same successful read before and after a fallback read.
C11_Witness ==
    /\ Len(history) = 3
    /\ history[1].config = history[3].config
    /\ history[1].result = history[3].result
    /\ ~IsNone(history[1].state)
    /\ ~IsNone(Val(history[1].state).relations)
    /\ IsNone(history[1].result.err)
    /\ ~IsNone(history[2].config.fallback)
    /\ ~IsNone(history[2].state)
    /\ Val(history[2].state).id = "fb-id"
    /\ history[3].state = history[1].state

\* C15: whatever the interleaving, a read that ran beside others ends with the
\* diagnostics, the state and the outcome of the same read run alone, and has
\* called Get for its own name and namespace.
C15_ConcurrentReadsAsAlone ==
    \A r \in Readers :
        inflight[r].pc = "done"
            => LET alone == ReadResult(kind, Val(inflight[r].config),
                                       Val(inflight[r].result))
               IN  /\ inflight[r].diags = alone.diags
                   /\ inflight[r].state = alone.state
                   /\ inflight[r].outcome = alone.outcome
                   /\ inflight[r].calls =
                          <<[name |-> Val(inflight[r].config).name,
                             namespace |->
                                 IF Val(inflight[r].config).namespace = Null
                                 THEN "default"
                                 ELSE Val(inflight[r].config).namespace]>>

\* C15 witness: two reads of different namespaces, both in flight at one time,
\* ended with a state each.
C15_Witness ==
    /\ inflight[1].pc = "done" /\ inflight[2].pc = "done"
    /\ Val(inflight[1].config).namespace = Null
    /\ Val(inflight[2].config).namespace = "team-ns"
    /\ ~IsNone(inflight[1].state) /\ ~IsNone(inflight[2].state)
    /\ Val(inflight[1].state).namespace = "default"
    /\ Val(inflight[2].state).namespace = "team-ns"

ErrorCount(ds) == Cardinality({i \in 1..Len(ds) : ds[i].severity = "error"})

\* C21: a state written carries a warning exactly when it comes from the
\* fallback (the fetch failed and a fallback is configured); a successful fetch
\* adds no diagnostic at all, with or without a fallback; a failed fetch
\* without a fallback adds exactly one error and no warning, and writes nothing.
C21_WarningIffFallbackSource ==
    ReadDone
        => /\ Written =>
                (HasWarning(diags)
                    <=> (FetchFailed /\ HasFallback /\ FromFallback(Out, Fb)))
           /\ FetchSucceeded => (diags = <<>> /\ Written)
           /\ (FetchFailed /\ ~HasFallback)
                => (ErrorCount(diags) = 1 /\ WarningCount(diags) = 0 /\ ~Written)

\* C21 witness: an error together with a 503, with a fallback: the state comes
\* from the fallback and carries warnings, no error.
C21_Witness ==
    /\ ReadDone /\ Written /\ HasFallback
    /\ ~IsNone(Res.err) /\ ~IsNone(Res.response)
    /\ Val(Res.response).StatusCode = 503
    /\ FromFallback(Out, Fb)
    /\ HasWarning(diags) /\ ErrorCount(diags) = 0

====
